---- MODULE Spec2Model ----
(***************************************************************************)
(* Model of core/adapters/exchanges/url_validator.py: the exchange URL     *)
(* allowlist (ALLOWED_URLS) and the five static methods of URLValidator.   *)
(*                                                                         *)
(* A Python str is a TLA+ string; TLC evaluates Len, \o, SubSeq, Head and  *)
(* Tail on strings.  The model's alphabet is printable ASCII: str.lower()  *)
(* is the ASCII case map, and the characters urlsplit removes (tab, CR,    *)
(* LF, leading C0 controls) other than the leading space are not drawn.    *)
(***************************************************************************)
EXTENDS Integers, Sequences, FiniteSets, TLC

VARIABLES
    allowed_urls,   \* the module-level dict ALLOWED_URLS
    url,            \* its url argument
    op,             \* the operation called
    service,        \* its exchange_name argument
    is_testnet,     \* its is_testnet argument
    is_websocket,   \* its is_websocket argument
    returned,       \* TRUE once the call has run to its end
    raised,         \* TRUE iff the call let an exception escape to the caller
    result,         \* the value the call returned
    pc,             \* concurrent callers: "idle" | "running" | "done"
    req,            \* concurrent callers: the arguments of the call in progress
    ret             \* concurrent callers: the value of the last completed call

vars == <<allowed_urls, url, op, service, is_testnet, is_websocket, returned,
          raised, result, pc, req, ret>>

---------------------------------------------------------------------------
(* Python str primitives *)

CaseMap ==
    [A |-> "a", B |-> "b", C |-> "c", D |-> "d", E |-> "e", F |-> "f",
     G |-> "g", H |-> "h", I |-> "i", J |-> "j", K |-> "k", L |-> "l",
     M |-> "m", N |-> "n", O |-> "o", P |-> "p", Q |-> "q", R |-> "r",
     S |-> "s", T |-> "t", U |-> "u", V |-> "v", W |-> "w", X |-> "x",
     Y |-> "y", Z |-> "z"]

LowerLetters == {CaseMap[c] : c \in DOMAIN CaseMap}
Letters == DOMAIN CaseMap \cup LowerLetters
Digits == {"0", "1", "2", "3", "4", "5", "6", "7", "8", "9"}

CharAt(s, i) == SubSeq(s, i, i)

RECURSIVE Lower(_)
\* str.lower()
Lower(s) ==
    IF s = "" THEN ""
    ELSE LET c == Head(s)
         IN (IF c \in DOMAIN CaseMap THEN CaseMap[c] ELSE c) \o Lower(Tail(s))

RECURSIVE RStrip(_, _)
\* str.rstrip(c): every trailing c is removed
RStrip(s, c) ==
    IF s # "" /\ CharAt(s, Len(s)) = c
    THEN RStrip(SubSeq(s, 1, Len(s) - 1), c)
    ELSE s

RECURSIVE LStrip(_, _)
\* str.lstrip(c)
LStrip(s, c) ==
    IF s # "" /\ Head(s) = c THEN LStrip(Tail(s), c) ELSE s

\* str.startswith(p)
StartsWith(s, p) == Len(p) <= Len(s) /\ SubSeq(s, 1, Len(p)) = p

\* str.endswith(p)
EndsWith(s, p) ==
    Len(p) <= Len(s) /\ SubSeq(s, Len(s) - Len(p) + 1, Len(s)) = p

\* s without one trailing '/', if it has one
DropSlash(s) ==
    IF EndsWith(s, "/") THEN SubSeq(s, 1, Len(s) - 1) ELSE s

RECURSIVE Find(_, _, _)
\* str.find(c, start) for a one-character c, 1-based; 0 when c does not occur
\* at or after position start
Find(s, c, start) ==
    IF start > Len(s) THEN 0
    ELSE IF CharAt(s, start) = c THEN start
    ELSE Find(s, c, start + 1)

RECURSIVE RFind(_, _, _)
\* str.rfind(c), 1-based, searching down from position from; 0 when absent
RFind(s, c, from) ==
    IF from < 1 THEN 0
    ELSE IF CharAt(s, from) = c THEN from
    ELSE RFind(s, c, from - 1)

\* c in s, for a one-character c
HasChar(s, c) == Find(s, c, 1) # 0

\* p in s, for any substring p
Contains(s, p) ==
    \E i \in 1..(Len(s) - Len(p) + 1) : SubSeq(s, i, i + Len(p) - 1) = p

\* s[i:] with a 1-based i
From(s, i) == SubSeq(s, i, Len(s))

\* s[:i] exclusive of the 1-based position i
Before(s, i) == SubSeq(s, 1, i - 1)

---------------------------------------------------------------------------
(* The allowlist table *)

ALLOWED_URLS ==
    [lighter |->
        [mainnet    |-> <<"https://mainnet.zklighter.elliot.ai",
                          "https://api.zklighter.elliot.ai">>,
         testnet    |-> <<"https://testnet.zklighter.elliot.ai",
                          "https://testnet-api.zklighter.elliot.ai">>,
         ws_mainnet |-> <<"wss://mainnet.zklighter.elliot.ai",
                          "wss://mainnet.zklighter.elliot.ai/stream">>,
         ws_testnet |-> <<"wss://testnet.zklighter.elliot.ai",
                          "wss://testnet.zklighter.elliot.ai/stream">>],
     backpack |->
        [mainnet    |-> <<"https://api.backpack.exchange",
                          "https://api.backpack.exchange/">>,
         testnet    |-> <<"https://api.backpack.exchange">>,
         ws_mainnet |-> <<"wss://ws.backpack.exchange",
                          "wss://ws.backpack.exchange/">>,
         ws_testnet |-> <<"wss://ws.backpack.exchange">>],
     binance |->
        [mainnet    |-> <<"https://fapi.binance.com",
                          "https://api.binance.com">>,
         testnet    |-> <<"https://testnet.binancefuture.com",
                          "https://testnet.binance.vision">>,
         ws_mainnet |-> <<"wss://fstream.binance.com",
                          "wss://stream.binance.com:9443">>,
         ws_testnet |-> <<"wss://stream.binancefuture.com">>],
     okx |->
        [mainnet    |-> <<"https://www.okx.com",
                          "https://okx.com",
                          "https://api.okx.com">>,
         testnet    |-> <<"https://www.okx.com",
                          "https://okx.com">>,
         ws_mainnet |-> <<"wss://ws.okx.com:8443",
                          "wss://ws.okx.com:8443/ws/v5/public",
                          "wss://ws.okx.com:8443/ws/v5/private">>,
         ws_testnet |-> <<"wss://wspap.okx.com:8443",
                          "wss://wspap.okx.com:8443/ws/v5/public",
                          "wss://wspap.okx.com:8443/ws/v5/private">>],
     edgex |->
        [mainnet    |-> <<"https://api.edgex.exchange",
                          "https://edgex.exchange">>,
         testnet    |-> <<"https://api.edgex.exchange",
                          "https://edgex.exchange">>,
         ws_mainnet |-> <<"wss://ws.edgex.exchange">>,
         ws_testnet |-> <<"wss://ws.edgex.exchange">>],
     hyperliquid |->
        [mainnet    |-> <<"https://api.hyperliquid.xyz",
                          "https://hyperliquid.xyz">>,
         testnet    |-> <<"https://testnet.hyperliquid.xyz",
                          "https://api-testnet.hyperliquid.xyz">>,
         ws_mainnet |-> <<"wss://api.hyperliquid.xyz/ws">>,
         ws_testnet |-> <<"wss://testnet.hyperliquid.xyz/ws">>]]

\* dict.get(k, default)
DictGet(d, k, default) == IF k \in DOMAIN d THEN d[k] ELSE default

\* the key is_allowed_url and the two accessors select
WhitelistKey(testnet, websocket) ==
    IF websocket
    THEN (IF testnet THEN "ws_testnet" ELSE "ws_mainnet")
    ELSE (IF testnet THEN "testnet" ELSE "mainnet")

---------------------------------------------------------------------------
(* URLValidator.is_allowed_url *)

\* Normalize without the case fold
NormalizeKeepCase(s) == RStrip(s, "/")

\* the normalisation applied to the candidate and to every entry
Normalize(s) == Lower(RStrip(s, "/"))

\* EntryMatches with a prefix test that has no '/' boundary
EntryMatchesNoBoundary(normalized_url, allowed_url) ==
    StartsWith(normalized_url, Lower(RStrip(allowed_url, "/")))

\* EntryMatches with a substring test in place of the prefix test
EntryMatchesAnywhere(normalized_url, allowed_url) ==
    \/ normalized_url = Lower(RStrip(allowed_url, "/"))
    \/ Contains(normalized_url, Lower(RStrip(allowed_url, "/")) \o "/")

\* the test of one entry inside the loop
EntryMatches(normalized_url, allowed_url) ==
    LET allowed_normalized == Normalize(allowed_url)
    IN \/ normalized_url = allowed_normalized
       \/ StartsWith(normalized_url, allowed_normalized \o "/")

IsAllowedUrl(table, exchange_name, u, testnet, websocket) ==
    IF u = "" THEN FALSE
    ELSE LET key == Lower(exchange_name)
         IN IF key \notin DOMAIN table THEN FALSE
            ELSE LET allowed == DictGet(table[key],
                                        WhitelistKey(testnet, websocket), <<>>)
                     normalized_url == Normalize(u)
                 IN \E i \in 1..Len(allowed) :
                        EntryMatches(normalized_url, allowed[i])

---------------------------------------------------------------------------
(* urllib.parse.urlparse, as url_validator.py imports and calls it *)

SchemeChars == Letters \cup Digits \cup {"+", "-", "."}

HexDigits == Digits \cup {"a", "b", "c", "d", "e", "f",
                          "A", "B", "C", "D", "E", "F"}

\* the schemes for which urlparse splits ';params' off the path
UsesParams == {"", "ftp", "hdl", "prospero", "http", "imap", "https", "shttp",
               "rtsp", "rtspu", "sip", "sips", "mms", "sftp", "tel"}

AllIn(s, S) == \A i \in 1..Len(s) : CharAt(s, i) \in S

\* the IPv6 literals ipaddress.ip_address accepts, among those the model draws
IPv6Literals == {"::1", "fe80::1", "2001:db8::1"}

\* _check_bracketed_host does not raise
BracketedHostOk(h) ==
    IF StartsWith(h, "v")
    THEN \E k \in 2..(Len(h) - 2) :
            /\ AllIn(SubSeq(h, 2, k), HexDigits)
            /\ CharAt(h, k + 1) = "."
    ELSE h \in IPv6Literals

\* the position of the first of '/', '?', '#' at or after start; Len(s) + 1
\* when there is none (_splitnetloc)
NetlocEnd(s, start) ==
    LET hits == {Find(s, c, start) : c \in {"/", "?", "#"}} \ {0}
    IN IF hits = {} THEN Len(s) + 1
       ELSE CHOOSE i \in hits : \A j \in hits : i <= j

\* _splitparams: the path and the params of the last path segment
SplitParams(path) ==
    LET slash == RFind(path, "/", Len(path))
        i == IF slash > 0 THEN Find(path, ";", slash) ELSE Find(path, ";", 1)
    IN IF i = 0 THEN [path |-> path, params |-> ""]
       ELSE [path |-> Before(path, i), params |-> From(path, i + 1)]

\* the value urlsplit returns: ok = FALSE stands for the ValueError it raises
SplitError ==
    [ok |-> FALSE, scheme |-> "", netloc |-> "", path |-> "", query |-> "",
     fragment |-> ""]

\* the text before the first c, or all of s when c does not occur
UpTo(s, c) ==
    LET i == Find(s, c, 1) IN IF i > 0 THEN Before(s, i) ELSE s

\* the text after the first c, or "" when c does not occur
After(s, c) ==
    LET i == Find(s, c, 1) IN IF i > 0 THEN From(s, i + 1) ELSE ""

\* urlsplit, from the netloc on: the bracket checks, then fragment and query
\* are split off the rest
SplitRest(scheme, netloc, rest) ==
    IF HasChar(netloc, "[") # HasChar(netloc, "]") THEN SplitError
    ELSE IF HasChar(netloc, "[")
            /\ ~BracketedHostOk(UpTo(After(netloc, "["), "]"))
    THEN SplitError
    ELSE [ok |-> TRUE, scheme |-> scheme, netloc |-> netloc,
          path |-> UpTo(UpTo(rest, "#"), "?"),
          query |-> After(UpTo(rest, "#"), "?"),
          fragment |-> After(rest, "#")]

\* urlsplit, from the scheme on: the netloc is what follows '//' up to the
\* first of '/', '?', '#'
SplitNetloc(scheme, u) ==
    IF StartsWith(u, "//")
    THEN SplitRest(scheme, SubSeq(u, 3, NetlocEnd(u, 3) - 1),
                   From(u, NetlocEnd(u, 3)))
    ELSE SplitRest(scheme, "", u)

\* urlsplit, after the leading whitespace is stripped: the scheme is what
\* precedes the first ':' when that is a letter followed by scheme characters
SplitScheme(u) ==
    LET colon == Find(u, ":", 1)
    IN IF colon > 1 /\ Head(u) \in Letters /\ AllIn(Before(u, colon), SchemeChars)
       THEN SplitNetloc(Lower(Before(u, colon)), From(u, colon + 1))
       ELSE SplitNetloc("", u)

UrlSplit(u) == SplitScheme(LStrip(u, " "))

\* urlparse of a urlsplit result, without the split of ';params' off the path
WithoutParamsSplit(v) ==
    [ok |-> v.ok, scheme |-> v.scheme, netloc |-> v.netloc, path |-> v.path,
     params |-> "", query |-> v.query, fragment |-> v.fragment]

\* urlparse of a urlsplit result: ';params' are split off the path
WithParamsSplit(v) ==
    IF v.ok /\ v.scheme \in UsesParams /\ HasChar(v.path, ";")
    THEN [ok |-> v.ok, scheme |-> v.scheme, netloc |-> v.netloc,
          path |-> SplitParams(v.path).path,
          params |-> SplitParams(v.path).params,
          query |-> v.query, fragment |-> v.fragment]
    ELSE WithoutParamsSplit(v)

\* the value urlparse returns
UrlParse(u) == WithParamsSplit(UrlSplit(u))

\* str.rpartition('@')[2]
AfterLastAt(netloc) ==
    LET at == RFind(netloc, "@", Len(netloc))
    IN IF at > 0 THEN From(netloc, at + 1) ELSE netloc

\* ParseResult._hostinfo of a bracketed host: inner is the text after '['
BracketedHostInfo(inner) ==
    IF HasChar(inner, "]")
    THEN [host |-> UpTo(inner, "]"), port |-> After(After(inner, "]"), ":")]
    ELSE [host |-> inner, port |-> ""]

\* ParseResult._hostinfo: the host text and the port text ("" for None) of
\* the netloc after its last '@'
HostInfoOf(hostinfo) ==
    IF HasChar(hostinfo, "[")
    THEN BracketedHostInfo(After(hostinfo, "["))
    ELSE [host |-> UpTo(hostinfo, ":"), port |-> After(hostinfo, ":")]

HostInfo(netloc) == HostInfoOf(AfterLastAt(netloc))

\* the host text with all but a '%zone' lower-cased
LowerHost(host) ==
    IF HasChar(host, "%")
    THEN Lower(UpTo(host, "%")) \o "%" \o After(host, "%")
    ELSE Lower(host)

\* ParseResult.hostname: "" stands for None
Hostname(netloc) == LowerHost(HostInfo(netloc).host)

DigitValue ==
    [d \in Digits |->
        CASE d = "0" -> 0 [] d = "1" -> 1 [] d = "2" -> 2 [] d = "3" -> 3
          [] d = "4" -> 4 [] d = "5" -> 5 [] d = "6" -> 6 [] d = "7" -> 7
          [] d = "8" -> 8 [] d = "9" -> 9]

RECURSIVE ToInt(_)
\* int(s) of a string of digits
ToInt(s) ==
    IF s = "" THEN 0
    ELSE 10 * ToInt(SubSeq(s, 1, Len(s) - 1)) + DigitValue[CharAt(s, Len(s))]

\* ParseResult.port of the port text: ok = FALSE stands for the ValueError it
\* raises; none is TRUE when the property is None
PortOf(text) ==
    IF text = "" THEN [ok |-> TRUE, none |-> TRUE, value |-> 0]
    ELSE IF ~AllIn(text, Digits) THEN [ok |-> FALSE, none |-> FALSE, value |-> 0]
    ELSE IF ToInt(text) > 65535 THEN [ok |-> FALSE, none |-> FALSE, value |-> 0]
    ELSE [ok |-> TRUE, none |-> FALSE, value |-> ToInt(text)]

Port(netloc) == PortOf(HostInfo(netloc).port)

---------------------------------------------------------------------------
(* URLValidator.validate_url_safety *)

\* the scheme tuple without the websocket schemes
HttpSchemesOnly == {"http", "https"}

AllowedSchemes == {"http", "https", "ws", "wss"}

\* ForbiddenHost with the 172.30-31 alternative of the private range left out
ForbiddenHostShortRange(h) ==
    \/ StartsWith(h, "127.")
    \/ StartsWith(h, "169.254.")
    \/ h = "::1"
    \/ StartsWith(h, "fe80:")
    \/ StartsWith(h, "10.")
    \/ /\ StartsWith(h, "172.")
       /\ Len(h) >= 7
       /\ \/ CharAt(h, 5) = "1" /\ CharAt(h, 6) \in {"6", "7", "8", "9"}
          \/ CharAt(h, 5) = "2" /\ CharAt(h, 6) \in Digits
       /\ CharAt(h, 7) = "."
    \/ StartsWith(h, "192.168.")
    \/ Contains(h, "localhost")
    \/ Contains(h, "metadata")
    \/ Contains(h, "docker.sock")
    \/ Contains(h, "redis")
    \/ EndsWith(h, ".internal")

\* forbidden_patterns, each regular expression as the test re.search makes
ForbiddenHost(h) ==
    \/ StartsWith(h, "127.")
    \/ StartsWith(h, "169.254.")
    \/ h = "::1"
    \/ StartsWith(h, "fe80:")
    \/ StartsWith(h, "10.")
    \/ /\ StartsWith(h, "172.")
       /\ Len(h) >= 7
       /\ \/ CharAt(h, 5) = "1" /\ CharAt(h, 6) \in {"6", "7", "8", "9"}
          \/ CharAt(h, 5) = "2" /\ CharAt(h, 6) \in Digits
          \/ CharAt(h, 5) = "3" /\ CharAt(h, 6) \in {"0", "1"}
       /\ CharAt(h, 7) = "."
    \/ StartsWith(h, "192.168.")
    \/ Contains(h, "localhost")
    \/ Contains(h, "metadata")
    \/ Contains(h, "docker.sock")
    \/ Contains(h, "redis")
    \/ EndsWith(h, ".internal")

dangerous_ports == {22, 23, 3306, 5432, 6379, 27017, 8080}

\* an outcome of a call: the value returned, or an exception raised
Returns(v) == [raised |-> FALSE, value |-> v]
Raises == [raised |-> TRUE, value |-> FALSE]

\* the try block after urlparse has returned
ValidateParsed(parsed, hostname) ==
    IF parsed.scheme \notin AllowedSchemes THEN Returns(FALSE)
    ELSE IF hostname = "" THEN Returns(FALSE)
    ELSE IF ForbiddenHost(Lower(hostname)) THEN Returns(FALSE)
    ELSE IF ~Port(parsed.netloc).ok THEN Raises
    ELSE IF Port(parsed.netloc).value # 0
            /\ Port(parsed.netloc).value \in dangerous_ports
    THEN Returns(FALSE)
    ELSE Returns(TRUE)

\* the try block once urlparse has returned or raised
ValidateAfterParse(parsed) ==
    IF ~parsed.ok THEN Raises
    ELSE ValidateParsed(parsed, Hostname(parsed.netloc))

\* the body of the try block
ValidateTry(u) == ValidateAfterParse(UrlParse(u))

\* validate_url_safety without its except clause: the outcome of the try
\* block is the outcome of the call
ValidateExceptMissing(body) == body

\* what the function returns given the outcome of its try block
ValidateExcept(body) == IF body.raised THEN Returns(FALSE) ELSE body

ValidateUrlSafety(u) ==
    IF u = "" THEN Returns(FALSE) ELSE ValidateExcept(ValidateTry(u))

---------------------------------------------------------------------------
(* URLValidator.sanitize_url *)

\* the f-string of the return statement
Rebuilt(parsed) == parsed.scheme \o "://" \o parsed.netloc \o parsed.path

\* the try block with str.rstrip('/') replaced by the removal of one '/'
SanitizeParsedStripOne(parsed) ==
    IF ~parsed.ok THEN Raises ELSE Returns(DropSlash(Rebuilt(parsed)))

\* the try block once urlparse has returned or raised
SanitizeParsed(parsed) ==
    IF ~parsed.ok THEN Raises ELSE Returns(RStrip(Rebuilt(parsed), "/"))

\* the body of the try block
SanitizeTry(u) == SanitizeParsed(UrlParse(u))

\* what the function returns given the outcome of its try block
SanitizeExcept(u, body) == IF body.raised THEN Returns(u) ELSE body

SanitizeUrl(u) ==
    IF u = "" THEN Returns("") ELSE SanitizeExcept(u, SanitizeTry(u))

---------------------------------------------------------------------------
(* URLValidator.get_allowed_base_urls, URLValidator.get_allowed_ws_urls *)

GetAllowedBaseUrls(table, exchange_name, testnet) ==
    LET key == Lower(exchange_name)
    IN IF key \notin DOMAIN table THEN <<>>
       ELSE DictGet(table[key], WhitelistKey(testnet, FALSE), <<>>)

\* get_allowed_ws_urls with the key of get_allowed_base_urls
GetAllowedWsUrlsHttpKey(table, exchange_name, testnet) ==
    LET key == Lower(exchange_name)
    IN IF key \notin DOMAIN table THEN <<>>
       ELSE DictGet(table[key], WhitelistKey(testnet, FALSE), <<>>)

GetAllowedWsUrls(table, exchange_name, testnet) ==
    LET key == Lower(exchange_name)
    IN IF key \notin DOMAIN table THEN <<>>
       ELSE DictGet(table[key], WhitelistKey(testnet, TRUE), <<>>)

---------------------------------------------------------------------------
(* The inputs the calls are drawn from *)

\* the longest suffix appended to a base URL
MaxTail == 1

\* the number of concurrent callers
NumCallers == 2

\* the characters a suffix is made of
TailChars == {"/", ";", "?", "#", ".", ":", "@", "a"}

RECURSIVE Tails(_)
\* every string over TailChars of length at most n
Tails(n) ==
    IF n = 0 THEN {""}
    ELSE LET shorter == Tails(n - 1)
         IN shorter \cup {t \o c : t \in shorter, c \in TailChars}

Range(f) == {f[i] : i \in DOMAIN f}

WhitelistKeys == {"mainnet", "testnet", "ws_mainnet", "ws_testnet"}

\* every entry of every sequence of the table
TableUrls ==
    UNION {Range(ALLOWED_URLS[s][k]) : s \in DOMAIN ALLOWED_URLS,
                                       k \in WhitelistKeys}

UpperOf == [c \in LowerLetters |-> CHOOSE u \in DOMAIN CaseMap : CaseMap[u] = c]

RECURSIVE Upper(_)
\* s with every letter in upper case
Upper(s) ==
    IF s = "" THEN ""
    ELSE LET c == Head(s)
         IN (IF c \in LowerLetters THEN UpperOf[c] ELSE c) \o Upper(Tail(s))

RECURSIVE MixedCase(_)
\* s with the letters at odd positions in upper case
MixedCase(s) ==
    IF s = "" THEN ""
    ELSE IF Len(s) = 1 THEN Upper(s)
    ELSE Upper(Head(s)) \o CharAt(s, 2) \o MixedCase(From(s, 3))

\* the variants of a table entry in letter case and in one trailing '/'
Variants(e) ==
    LET cased == {e, Upper(e), MixedCase(e), Lower(e)}
    IN cased \cup {v \o "/" : v \in cased} \cup {DropSlash(v) : v \in cased}

\* URLs that resemble a table entry without being under one
NearMisses ==
    {"https://mainnet.zklighter.elliot.ai.evil.com",
     "https://mainnet.zklighter.elliot.ai/orders",
     "https://fapi.binance.com:8080", "https://fapi.binance.com@evil.com",
     "https://fapi.binance.com.evil.com", "https://fapi.binance.comx",
     "https://evil.com/https://fapi.binance.com",
     "https://evil.com/https://fapi.binance.com/fapi/v1/order",
     "wss://stream.binance.com:94430", "wss://stream.binance.com",
     "wss://ws.okx.com:8443/ws/v5/publicx", "wss://ws.okx.com:8443/ws",
     "http://fapi.binance.com", "https://fapi.binance.co",
     " https://okx.com", "https://example.com", "//okx.com", "okx.com"}

\* URLs outside the table: other hosts, forbidden hosts and ports, other
\* schemes, malformed URLs, URLs with params, query and fragment
OtherUrls ==
    {"HTTP://EXAMPLE.COM", " https://example.com",
     "ftp://example.com", "file:///etc/passwd", "javascript:alert(1)",
     "example.com", "//example.com", "https:", "https://", "https:///path",
     "1http://example.com", "ht_tp://example.com",
     "https://example.com:6379", "https://example.com:22",
     "https://example.com:23", "https://example.com:3306",
     "https://user:pw@example.com:5432", "https://example.com:27017",
     "https://example.com:8080", "https://example.com:443",
     "https://example.com:0", "https://example.com:",
     "https://example.com:99999", "https://example.com:abc",
     "http://169.254.169.254/latest/meta-data/",
     "http://127.0.0.1", "http://10.0.0.1", "http://110.0.0.1",
     "http://172.16.0.1", "http://172.31.0.1", "http://172.25.0.1",
     "http://172.15.0.1", "http://172.32.0.1", "http://172.160.0.1",
     "http://192.168.1.1", "http://192.169.1.1",
     "http://[::1]", "http://[::1]:8080", "http://[fe80::1]",
     "http://[2001:db8::1]", "http://[2001:db8::1]:6379", "http://[::1",
     "http://::1]", "http://[::g]", "http://[v1.x]",
     "http://localhost", "http://LOCALHOST:80", "http://my-metadata.example.com",
     "http://docker.sock", "http://redis.example.com", "https://Redis.io",
     "http://db.internal", "http://internal.example.com",
     "https://evil.com@localhost", "https://localhost@example.com",
     "https://api.example.com/path?token=secret#frag",
     "https://api.example.com/path;v=1", "ws://api.example.com/path;v=1",
     "https://api.example.com/a;b/c", "https://api.example.com//"}

\* the URLs is_allowed_url is called with
AllowlistUrls ==
    {""} \cup {b \o t : b \in TableUrls \cup NearMisses, t \in Tails(MaxTail)}
         \cup UNION {Variants(e) : e \in TableUrls}

\* the URLs validate_url_safety and sanitize_url are called with
Urls == AllowlistUrls \cup {b \o t : b \in OtherUrls, t \in Tails(MaxTail)}

\* exchange names: every key of the table, keys in other letter cases, and
\* names that are no key
Services ==
    DOMAIN ALLOWED_URLS \cup {"BINANCE", "OkX", "unknown_exchange"}

---------------------------------------------------------------------------
(* One caller: a behaviour is one call, drawn at the start and then run *)

Callers == 1..NumCallers

\* the call of the behaviour and its arguments, the arguments an operation
\* does not take left at a default
Drawn(name, s, u, t, w) ==
    /\ op = name
    /\ service = s
    /\ url = u
    /\ is_testnet = t
    /\ is_websocket = w

Init ==
    /\ allowed_urls = ALLOWED_URLS
    /\ returned = FALSE
    /\ raised = FALSE
    /\ result = FALSE
    /\ pc = [c \in Callers |-> "idle"]
    /\ req = [c \in Callers |-> <<>>]
    /\ ret = [c \in Callers |-> <<>>]
    /\ \/ \E s \in Services, u \in AllowlistUrls, t \in BOOLEAN, w \in BOOLEAN :
              Drawn("is_allowed_url", s, u, t, w)
       \/ \E u \in Urls : Drawn("validate_url_safety", "", u, FALSE, FALSE)
       \/ \E u \in Urls : Drawn("sanitize_url", "", u, FALSE, FALSE)
       \/ \E s \in Services, t \in BOOLEAN :
              Drawn("get_allowed_base_urls", s, "", t, FALSE)
       \/ \E s \in Services, t \in BOOLEAN :
              Drawn("get_allowed_ws_urls", s, "", t, TRUE)

\* a call that removes the first entry of a sequence it has read
TableAfterCallPop(table) ==
    [table EXCEPT !.binance.mainnet = IF @ = <<>> THEN @ ELSE Tail(@)]

\* the effect of any of the five operations on the table: none of them
\* assigns to ALLOWED_URLS or to a value inside it
TableAfterCall(table) == table

\* the call of the behaviour runs to its end with the given outcome
Run(name, outcome) ==
    /\ ~returned
    /\ op = name
    /\ returned' = TRUE
    /\ raised' = outcome.raised
    /\ result' = outcome.value
    /\ allowed_urls' = TableAfterCall(allowed_urls)
    /\ UNCHANGED <<op, service, url, is_testnet, is_websocket, pc, req, ret>>

is_allowed_url ==
    Run("is_allowed_url",
        Returns(IsAllowedUrl(allowed_urls, service, url, is_testnet,
                             is_websocket)))

validate_url_safety ==
    Run("validate_url_safety", ValidateUrlSafety(url))

sanitize_url ==
    Run("sanitize_url", SanitizeUrl(url))

get_allowed_base_urls ==
    Run("get_allowed_base_urls",
        Returns(GetAllowedBaseUrls(allowed_urls, service, is_testnet)))

get_allowed_ws_urls ==
    Run("get_allowed_ws_urls",
        Returns(GetAllowedWsUrls(allowed_urls, service, is_testnet)))

Next ==
    \/ is_allowed_url
    \/ validate_url_safety
    \/ sanitize_url
    \/ get_allowed_base_urls
    \/ get_allowed_ws_urls

Spec == Init /\ [][Next]_vars

---------------------------------------------------------------------------
(* Concurrent callers: each call is invoked, then runs against the table *)

\* the calls the concurrent callers make
ConcRequests ==
    {<<"is_allowed_url", "binance", "https://fapi.binance.com/fapi/v1/order",
       FALSE, FALSE>>,
     <<"is_allowed_url", "Binance", "https://fapi.binance.com", TRUE, FALSE>>,
     <<"is_allowed_url", "kraken", "https://fapi.binance.com", FALSE, FALSE>>,
     <<"validate_url_safety", "", "https://example.com", FALSE, FALSE>>,
     <<"validate_url_safety", "", "http://169.254.169.254/latest/meta-data/",
       FALSE, FALSE>>,
     <<"sanitize_url", "", "https://api.example.com/path?token=secret#frag",
       FALSE, FALSE>>,
     <<"get_allowed_base_urls", "binance", "", FALSE, FALSE>>,
     <<"get_allowed_base_urls", "kraken", "", TRUE, FALSE>>,
     <<"get_allowed_ws_urls", "OKX", "", TRUE, TRUE>>,
     <<"get_allowed_ws_urls", "binance", "", FALSE, TRUE>>}

\* the value request r returns when it runs against the table
Eval(table, r) ==
    CASE r[1] = "is_allowed_url" -> IsAllowedUrl(table, r[2], r[3], r[4], r[5])
      [] r[1] = "validate_url_safety" -> ValidateUrlSafety(r[3]).value
      [] r[1] = "sanitize_url" -> SanitizeUrl(r[3]).value
      [] r[1] = "get_allowed_base_urls" -> GetAllowedBaseUrls(table, r[2], r[4])
      [] r[1] = "get_allowed_ws_urls" -> GetAllowedWsUrls(table, r[2], r[4])

ConcInit ==
    /\ allowed_urls = ALLOWED_URLS
    /\ op = "none"
    /\ service = ""
    /\ url = ""
    /\ is_testnet = FALSE
    /\ is_websocket = FALSE
    /\ returned = FALSE
    /\ raised = FALSE
    /\ result = FALSE
    /\ pc = [c \in Callers |-> "idle"]
    /\ req = [c \in Callers |-> <<>>]
    /\ ret = [c \in Callers |-> <<>>]

\* caller c starts a call
Invoke(c) ==
    /\ pc[c] \in {"idle", "done"}
    /\ \E r \in ConcRequests : req' = [req EXCEPT ![c] = r]
    /\ pc' = [pc EXCEPT ![c] = "running"]
    /\ ret' = [ret EXCEPT ![c] = <<>>]
    /\ UNCHANGED <<allowed_urls, op, service, url, is_testnet, is_websocket,
                   returned, raised, result>>

\* the call of caller c runs against the table as it is now
Return(c) ==
    /\ pc[c] = "running"
    /\ ret' = [ret EXCEPT ![c] = Eval(allowed_urls, req[c])]
    /\ pc' = [pc EXCEPT ![c] = "done"]
    /\ allowed_urls' = TableAfterCall(allowed_urls)
    /\ UNCHANGED <<req, op, service, url, is_testnet, is_websocket, returned,
                   raised, result>>

ConcNext ==
    \/ \E c \in Callers : Invoke(c)
    \/ \E c \in Callers : Return(c)

ConcSpec == ConcInit /\ [][ConcNext]_vars

\* C8: after any interleaving of calls by concurrent callers the table
\* equals its initial value, and the result of every completed call is the
\* value its arguments alone determine, the same for every caller.
C8_TableImmutableResultsFunctional ==
    /\ allowed_urls = ALLOWED_URLS
    /\ \A c \in Callers :
           pc[c] = "done" => ret[c] = Eval(ALLOWED_URLS, req[c])
    /\ \A c \in Callers, d \in Callers :
           (pc[c] = "done" /\ pc[d] = "done" /\ req[c] = req[d]) =>
               ret[c] = ret[d]

\* two callers have completed the same accessor call, which returned the
\* table's own sequence
C8_Witness ==
    \E c \in Callers, d \in Callers :
        /\ c # d
        /\ pc[c] = "done" /\ pc[d] = "done"
        /\ req[c] = req[d]
        /\ req[c][1] = "get_allowed_base_urls"
        /\ req[c][2] = "binance"

---------------------------------------------------------------------------
(* Properties of is_allowed_url *)

\* the sequence of the table the arguments of the last call select
Selected ==
    LET key == Lower(service)
    IN IF key \notin DOMAIN ALLOWED_URLS THEN <<>>
       ELSE CASE is_websocket /\ is_testnet   -> ALLOWED_URLS[key].ws_testnet
              [] is_websocket /\ ~is_testnet  -> ALLOWED_URLS[key].ws_mainnet
              [] ~is_websocket /\ is_testnet  -> ALLOWED_URLS[key].testnet
              [] ~is_websocket /\ ~is_testnet -> ALLOWED_URLS[key].mainnet

\* a string with exactly one trailing '/' stripped, then lower-cased
StripOneAndFold(s) == Lower(DropSlash(s))

\* StripOneAndFold of every table entry
FoldedEntry == [e \in TableUrls |-> StripOneAndFold(e)]

\* the candidate equals an entry of the selected sequence or is under it,
\* both stripped of one trailing '/' and lower-cased
UnderSelectedEntry ==
    LET u == StripOneAndFold(url)
    IN \E i \in 1..Len(Selected) :
           \/ u = FoldedEntry[Selected[i]]
           \/ StartsWith(u, FoldedEntry[Selected[i]] \o "/")

\* C1: is_allowed_url returns true iff the URL is non-empty, the lower-cased
\* service is a key of the table, and some entry of the selected sequence
\* equals the URL or is a '/'-bounded prefix of it, both normalised by
\* stripping one trailing '/' and lower-casing; in every other case false.
C1_AllowedIffUnderSelectedEntry ==
    (returned /\ op = "is_allowed_url") =>
        (result <=> /\ url # ""
                    /\ Lower(service) \in DOMAIN ALLOWED_URLS
                    /\ UnderSelectedEntry)

\* a URL with repeated trailing slashes under a selected entry is accepted
C1_Witness ==
    /\ returned
    /\ op = "is_allowed_url"
    /\ EndsWith(url, "//")
    /\ result = TRUE

\* the text up to the first '/' after '://', or the whole string
SchemeAuthority(s) ==
    LET starts == {i \in 1..(Len(s) - 2) : SubSeq(s, i, i + 2) = "://"}
    IN IF starts = {} THEN s
       ELSE LET sep == CHOOSE i \in starts : \A j \in starts : i <= j
                slash == Find(s, "/", sep + 3)
            IN IF slash = 0 THEN s ELSE Before(s, slash)

\* the lower-cased scheme and authority of every table entry
EntryHost == [e \in TableUrls |-> Lower(SchemeAuthority(e))]

\* the scheme and authority of the URL are those of a selected entry
SameHostAsSelected ==
    LET host == Lower(SchemeAuthority(url))
    IN \E i \in 1..Len(Selected) : host = EntryHost[Selected[i]]

\* the URL is entry e followed by text that does not begin with '/'
ExtendsWithoutSlash(u, e) ==
    /\ Len(u) > Len(e)
    /\ Lower(SubSeq(u, 1, Len(e))) = Lower(e)
    /\ CharAt(u, Len(e) + 1) # "/"

\* C2 as stated: an accepted URL has the scheme and authority of a selected
\* entry, and a URL that extends any selected entry by text not beginning
\* with '/' is rejected.
C2_Original ==
    (returned /\ op = "is_allowed_url") =>
        /\ result => SameHostAsSelected
        /\ \A i \in 1..Len(Selected) :
               ExtendsWithoutSlash(url, Selected[i]) => ~result

\* C2 amended: an accepted URL has the scheme and authority of a selected
\* entry, and a URL that extends a selected entry made of scheme and
\* authority only (no path, no trailing '/') by text not beginning with '/'
\* is rejected.
C2_NeverAnotherHost ==
    (returned /\ op = "is_allowed_url") =>
        /\ result => SameHostAsSelected
        /\ \A i \in 1..Len(Selected) :
               (EntryHost[Selected[i]] = Selected[i]
                    /\ ExtendsWithoutSlash(url, Selected[i])) => ~result

\* an entry extended by '.', ':' or '@' is rejected, and a URL under an
\* entry is accepted
C2_Witness ==
    /\ returned
    /\ op = "is_allowed_url"
    /\ ~result
    /\ \E i \in 1..Len(Selected) :
           /\ EntryHost[Selected[i]] = Selected[i]
           /\ ExtendsWithoutSlash(url, Selected[i])
           /\ CharAt(url, Len(Selected[i]) + 1) \in {".", ":", "@"}

\* the variants of every table entry
EntryVariants == [e \in TableUrls |-> Variants(e)]

\* C5: every entry of the selected sequence, in any letter case and with one
\* trailing '/' added or removed, is accepted under the matching service
\* (in any letter case), mode and transport.
C5_EntriesAndVariantsAccepted ==
    (returned /\ op = "is_allowed_url"
        /\ \E i \in 1..Len(Selected) : url \in EntryVariants[Selected[i]])
    => result

\* an upper-case entry with a trailing '/' is accepted for an upper-case
\* service name
C5_Witness ==
    /\ returned
    /\ op = "is_allowed_url"
    /\ service = "BINANCE"
    /\ url = "HTTPS://FAPI.BINANCE.COM/"
    /\ ~is_testnet /\ ~is_websocket
    /\ result = TRUE

---------------------------------------------------------------------------
(* Properties of validate_url_safety *)

\* the host patterns as the specification lists them
ListedForbiddenHost(h) ==
    \/ \E p \in {"127.", "169.254.", "10.", "192.168.", "fe80:"} :
           StartsWith(h, p)
    \/ \E n \in 16..31 :
           \E a \in Digits, b \in Digits :
               /\ ToInt(a \o b) = n
               /\ StartsWith(h, "172." \o a \o b \o ".")
    \/ h = "::1"
    \/ \E p \in {"localhost", "metadata", "docker.sock", "redis"} :
           Contains(h, p)
    \/ EndsWith(h, ".internal")

ListedPorts == {22, 23, 3306, 5432, 6379, 27017, 8080}

\* C3: validate_url_safety returns true iff the URL is non-empty and parses,
\* its scheme is http, https, ws or wss, its hostname is non-empty and
\* matches no forbidden pattern, and it has no explicit port or a port
\* outside the forbidden set; every other input yields false.
C3_SafeIffAllChecksPass ==
    (returned /\ op = "validate_url_safety") =>
        LET parsed == UrlParse(url)
            host == Hostname(parsed.netloc)
            port == Port(parsed.netloc)
        IN result <=>
            /\ url # ""
            /\ parsed.ok /\ port.ok
            /\ parsed.scheme \in {"http", "https", "ws", "wss"}
            /\ host # ""
            /\ ~ListedForbiddenHost(Lower(host))
            /\ port.none \/ port.value \notin ListedPorts

\* a host in 172.31.0.0/16 is rejected
C3_Witness ==
    /\ returned
    /\ op = "validate_url_safety"
    /\ url = "http://172.31.0.1"
    /\ result = FALSE

---------------------------------------------------------------------------
(* Error handling *)

\* C4: no operation lets a fault escape: is_allowed_url and
\* validate_url_safety return a boolean, the accessors a sequence,
\* sanitize_url a string; when parsing fails validate_url_safety returns
\* false and sanitize_url returns its input unchanged.
C4_NoFaultPropagates ==
    returned =>
        /\ ~raised
        /\ op \in {"is_allowed_url", "validate_url_safety"} =>
               result \in BOOLEAN
        /\ op \in {"get_allowed_base_urls", "get_allowed_ws_urls"} =>
               /\ DOMAIN result = 1..Len(result)
               /\ \A i \in DOMAIN result : result[i] \in STRING
        /\ op = "sanitize_url" => result \in STRING
        /\ (op = "validate_url_safety" /\ ~UrlParse(url).ok) => result = FALSE
        /\ (op = "sanitize_url" /\ ~UrlParse(url).ok) => result = url

\* validate_url_safety was called with a URL urlparse rejects
C4_Witness ==
    /\ returned
    /\ op = "validate_url_safety"
    /\ url = "http://[::1"
    /\ ~raised
    /\ result = FALSE

---------------------------------------------------------------------------
(* Properties of sanitize_url *)

RECURSIVE Slashes(_)
\* the string of n '/'
Slashes(n) == IF n = 0 THEN "" ELSE "/" \o Slashes(n - 1)

\* C6 as stated: for a non-empty URL that parses, sanitize_url returns
\* scheme + '://' + authority + path with only the query and the fragment
\* discarded, and with one trailing '/' removed (one slash, never a slash of
\* the '://' separator); for the empty string it returns the empty string.
C6_Original ==
    (returned /\ op = "sanitize_url") =>
        IF url = "" THEN result = ""
        ELSE LET v == UrlSplit(url)
                 full == v.scheme \o "://" \o v.netloc \o v.path
             IN v.ok =>
                 result = IF EndsWith(full, "/") /\ Len(full) > Len(v.scheme) + 3
                          THEN SubSeq(full, 1, Len(full) - 1)
                          ELSE full

\* C6 amended: for a non-empty URL that parses, sanitize_url returns
\* scheme + '://' + netloc + path of urlparse (the query, the fragment and
\* the ';params' urlparse splits off the last path segment discarded) with
\* every trailing '/' removed, those of '://' included when netloc and path
\* are empty; for the empty string it returns the empty string.
C6_SchemeNetlocPathNoTrailingSlash ==
    (returned /\ op = "sanitize_url") =>
        IF url = "" THEN result = ""
        ELSE LET parsed == UrlParse(url)
                 full == parsed.scheme \o "://" \o parsed.netloc \o parsed.path
             IN parsed.ok =>
                 /\ ~EndsWith(result, "/")
                 /\ ~HasChar(result, "?")
                 /\ ~HasChar(result, "#")
                 /\ Len(result) <= Len(full)
                 /\ full = result \o Slashes(Len(full) - Len(result))

\* a URL ending in two slashes loses both
C6_Witness ==
    /\ returned
    /\ op = "sanitize_url"
    /\ url = "https://api.example.com//"
    /\ result = "https://api.example.com"

\* C7: sanitize_url is idempotent on every URL that has a scheme and an
\* authority: sanitizing its result again gives the same result.
C7_Idempotent ==
    (returned /\ op = "sanitize_url" /\ url # "") =>
        LET parsed == UrlParse(url)
        IN (parsed.ok /\ parsed.scheme # "" /\ parsed.netloc # "") =>
               SanitizeUrl(result).value = result

---------------------------------------------------------------------------
(* Properties of the accessors *)

\* C9: get_allowed_base_urls returns exactly the table's 'testnet' or
\* 'mainnet' sequence and get_allowed_ws_urls its 'ws_testnet' or
\* 'ws_mainnet' sequence for the lower-cased service name, the empty
\* sequence for a name that is no key; and is_allowed_url accepts every
\* entry returned, under the same service, mode and transport.
C9_AccessorsReturnTableSequences ==
    (returned /\ op \in {"get_allowed_base_urls", "get_allowed_ws_urls"}) =>
        LET key == Lower(service)
            ws == (op = "get_allowed_ws_urls")
        IN /\ key \notin DOMAIN ALLOWED_URLS => result = <<>>
           /\ (key \in DOMAIN ALLOWED_URLS /\ ~ws /\ is_testnet) =>
                  result = ALLOWED_URLS[key].testnet
           /\ (key \in DOMAIN ALLOWED_URLS /\ ~ws /\ ~is_testnet) =>
                  result = ALLOWED_URLS[key].mainnet
           /\ (key \in DOMAIN ALLOWED_URLS /\ ws /\ is_testnet) =>
                  result = ALLOWED_URLS[key].ws_testnet
           /\ (key \in DOMAIN ALLOWED_URLS /\ ws /\ ~is_testnet) =>
                  result = ALLOWED_URLS[key].ws_mainnet
           /\ \A i \in 1..Len(result) :
                  IsAllowedUrl(allowed_urls, service, result[i], is_testnet, ws)

\* the websocket testnet sequence of a service named in mixed case
C9_Witness ==
    /\ returned
    /\ op = "get_allowed_ws_urls"
    /\ service = "OkX"
    /\ is_testnet
    /\ Len(result) = 3

---------------------------------------------------------------------------
(* The allowlist against the safety check *)

\* C10: a URL is_allowed_url accepts passes validate_url_safety, and every
\* entry of the table passes validate_url_safety.
C10_AllowedImpliesSafe ==
    /\ (returned /\ op = "is_allowed_url" /\ result) =>
           ValidateUrlSafety(url).value
    /\ (returned /\ op = "validate_url_safety" /\ url \in TableUrls) => result

\* an accepted websocket URL with an explicit port and a path
C10_Witness ==
    /\ returned
    /\ op = "is_allowed_url"
    /\ url = "wss://ws.okx.com:8443/ws/v5/public/"
    /\ result = TRUE

====
